---- MODULE Spec2Model ----
(***************************************************************************)
(* Model of camera_synchronization.cpp: the lifecycle controller           *)
(* (RunMultipleCameras), one AcquireImages thread per camera, the          *)
(* DisplayFrames thread, and one SafeQueue per camera.                     *)
(*                                                                         *)
(* Cameras are indexed from 0 as in the source.  A frame (cv::Mat) is      *)
(* represented by the pair <<camera, n>>: the n-th complete image that     *)
(* camera delivered; the empty Mat is the empty tuple.                     *)
(***************************************************************************)
EXTENDS Integers, Sequences, FiniteSets, TLC

\* ------------------------------------------------------------------ bounds
\* Largest number of cameras camList.GetSize() reports.
MaxCameras == 3
\* Total number of complete images the cameras deliver in one run; each
\* camera delivers MaxImages \div numCameras of them.
MaxImages == 6
\* The same two bounds for the specification with fairness.
MaxCamerasFair == 2
MaxImagesFair == 4
\* Largest camera count for which the grid dimensions are evaluated.
MaxGridCameras == 16
\* With cameras that never run out of images: the largest number of cameras,
\* and the number of items the queues hold together when every camera holds
\* its next image back (a queue holds MaxQueuedLive \div numCameras of them).
MaxCamerasLive == 2
MaxQueuedLive == 4

\* --------------------------------------------------------- program constants
\* const int64_t SYNC_THRESHOLD_NS = 1000000; (declared, never read by the code)
SYNC_THRESHOLD_NS == 1000000
\* resize(frame, frameCopy, Size(640, 480)): width, height of every queued frame
FrameWidth == 640
FrameHeight == 480
\* Mat::zeros(480, 640, CV_8UC3): rows, columns of the placeholder
BlankRows == 480
BlankCols == 640

\* ------------------------------------------------------------ the scenario
\* Two sources; source 0 stamps 100,200,300 and source 1 stamps 150,250,350.
ScenarioScript == [i \in 0 .. 1 |-> [k \in 1 .. 3 |-> 100 * k + 50 * i]]

VARIABLES
    numCameras,        \* camList.GetSize()
    script,            \* per camera: the timestamps of the images it will deliver
    endless,           \* the cameras deliver the images of script over and over
    quitHeld,          \* the user is holding the quit key down on the window
    frameQueues,       \* vector<SafeQueue>, indexed from 0
    isRunning,         \* atomic<bool>
    cpc, ck,           \* RunMultipleCameras: position and loop index
    result,            \* RunMultipleCameras: result
    cameras,           \* RunMultipleCameras: vector<CameraPtr>
    camState,          \* per camera: state of the device
    ppc,               \* per AcquireImages thread: position
    captured,          \* per camera: complete images delivered so far
    pItem,             \* per AcquireImages thread: the FrameData being pushed
    spc, si,           \* DisplayFrames: position and the collect loop's i
    latestFrames,      \* DisplayFrames: vector<Mat>
    latestTimestamps,  \* DisplayFrames: vector<uint64_t>
    allFramesReceived, \* DisplayFrames: bool
    \* history of the run, read by the properties only
    pushedLog,         \* per queue: items pushed, in order
    poppedLog,         \* per queue: items returned by successful pops, in order
    rendered,          \* composites shown by imshow, in order
    cyclePops,         \* per queue: item popped in the current collection attempt
    cycleCount,        \* per queue: items the current collection attempt took out of it
    cycleRendered,     \* the current cycle has shown its composite
    discarded,         \* items popped in collection attempts that were abandoned
    setupFailed        \* some camera's setup raised or ConfigureTrigger returned -1

vars == <<numCameras, script, endless, quitHeld, frameQueues, isRunning, cpc, ck, result, cameras,
          camState, ppc, captured, pItem, spc, si, latestFrames,
          latestTimestamps, allFramesReceived, pushedLog, poppedLog, rendered,
          cyclePops, cycleCount, cycleRendered, discarded, setupFailed>>

ctlVars  == <<cpc, ck, result, cameras, camState, setupFailed>>
prodVars == <<ppc, captured, pItem, pushedLog>>
syncVars == <<spc, si, latestFrames, latestTimestamps, allFramesReceived,
              poppedLog, rendered, cyclePops, cycleCount, cycleRendered, discarded>>

Cams == 0 .. numCameras - 1

\* ---------------------------------------------------------------- FrameData
NoFrame == << >>

\* FrameData(f, ts, idx)
FrameData(f, ts, idx) == [frame |-> f, timestamp |-> ts, cameraIndex |-> idx]

\* FrameData(): timestamp(0), cameraIndex(-1), empty Mat
DefaultFrameData == FrameData(NoFrame, 0, -1)

\* ---------------------------------------------------------------- SafeQueue
Free == "free"

\* SafeQueue() = default
NewSafeQueue == [q |-> << >>, mtx |-> Free]

push_Front(q, item) == <<item>> \o q
push_Bounded(q, item) == IF Len(q) >= 1 THEN q ELSE Append(q, item)

\* q.push(move(item))
push(q, item) == Append(q, item)

\* q.empty()
empty(q) == Len(q) = 0

front_Last(q) == q[Len(q)]

\* item = move(q.front())
front(q) == Head(q)

popFront_Peek(q) == q

\* q.pop()
popFront(q) == Tail(q)

\* frameQueues.emplace_back()
EmplaceBack(v) ==
    LET n == Cardinality(DOMAIN v)
    IN  [j \in 0 .. n |-> IF j < n THEN v[j] ELSE NewSafeQueue]

\* ------------------------------------------------------------------- Init
\* Camera i stamps its k-th image two thresholds after its previous one and
\* 50 ns after camera i-1 stamps its k-th.
Scripts(n, images) ==
    [i \in 0 .. n - 1 |->
        [k \in 1 .. images \div n |-> 2 * SYNC_THRESHOLD_NS * k + 50 * i]]

InitRest ==
    /\ quitHeld = FALSE
    /\ frameQueues = << >>
    /\ isRunning = TRUE
    /\ cpc = "queues"
    /\ ck = 0
    /\ result = 0
    /\ cameras = << >>
    /\ camState = [i \in Cams |-> "closed"]
    /\ ppc = [i \in Cams |-> "idle"]
    /\ captured = [i \in Cams |-> 0]
    /\ pItem = [i \in Cams |-> DefaultFrameData]
    /\ spc = "idle"
    /\ si = 0
    /\ latestFrames = << >>
    /\ latestTimestamps = << >>
    /\ allFramesReceived = TRUE
    /\ pushedLog = [i \in Cams |-> << >>]
    /\ poppedLog = [i \in Cams |-> << >>]
    /\ rendered = << >>
    /\ cyclePops = [i \in Cams |-> DefaultFrameData]
    /\ cycleCount = [i \in Cams |-> 0]
    /\ cycleRendered = FALSE
    /\ discarded = {}
    /\ setupFailed = FALSE

Init ==
    /\ numCameras \in 1 .. MaxCameras
    /\ script = Scripts(numCameras, MaxImages)
    /\ endless = FALSE
    /\ InitRest

InitFair ==
    /\ numCameras \in 1 .. MaxCamerasFair
    /\ script = Scripts(numCameras, MaxImagesFair)
    /\ endless = FALSE
    /\ InitRest

InitScenario ==
    /\ numCameras = Cardinality(DOMAIN ScenarioScript)
    /\ script = ScenarioScript
    /\ endless = FALSE
    /\ InitRest

\* Cameras that deliver one image after another for as long as they are asked.
InitLive ==
    /\ numCameras \in 1 .. MaxCamerasLive
    /\ script = Scripts(numCameras, numCameras)
    /\ endless = TRUE
    /\ InitRest

\* ------------------------------------------------------- RunMultipleCameras
\* a | b on the values 0 and -1 (result |= ...)
BitOr(a, b) == IF a = -1 \/ b = -1 THEN -1 ELSE 0

\* ConfigureTrigger: -1 when the TriggerMode node is not readable or when a
\* node access raises Spinnaker::Exception (caught inside), else 0.
ConfigureTrigger(readable, raises) ==
    IF ~readable THEN -1 ELSE IF raises THEN -1 ELSE 0

\* Position after one pass of a counted loop of RunMultipleCameras.
NextOr(k, n, again, after) == IF k + 1 < n THEN again ELSE after
NextIdx(k, n) == IF k + 1 < n THEN k + 1 ELSE 0

\* for (i < numCameras) frameQueues.emplace_back();
CtlEmplace ==
    /\ cpc = "queues"
    /\ frameQueues' = EmplaceBack(frameQueues)
    /\ cpc' = NextOr(ck, numCameras, "queues", "init")
    /\ ck' = NextIdx(ck, numCameras)
    /\ UNCHANGED <<numCameras, script, endless, quitHeld, isRunning, result, cameras, camState,
                   setupFailed, prodVars, syncVars>>

\* pCam->Init(): returns, or raises into the catch block.
CtlInit ==
    /\ cpc = "init"
    /\ \E raises \in BOOLEAN :
          IF raises
          THEN /\ cpc' = "caught"
               /\ setupFailed' = TRUE
               /\ UNCHANGED camState
          ELSE /\ cpc' = "trigger"
               /\ camState' = [camState EXCEPT ![ck] = "inited"]
               /\ UNCHANGED setupFailed
    /\ UNCHANGED <<numCameras, script, endless, quitHeld, frameQueues, isRunning, ck, result,
                   cameras, prodVars, syncVars>>

\* result |= ConfigureTrigger(pCam->GetNodeMap()); the loop goes on either way.
CtlConfigureTrigger ==
    /\ cpc = "trigger"
    /\ \E readable \in BOOLEAN, raises \in BOOLEAN :
          LET r == ConfigureTrigger(readable, raises)
          IN  /\ result' = BitOr(result, r)
              /\ setupFailed' = (setupFailed \/ r = -1)
    /\ cpc' = "begin"
    /\ UNCHANGED <<numCameras, script, endless, quitHeld, frameQueues, isRunning, ck, cameras,
                   camState, prodVars, syncVars>>

\* AcquisitionMode, pCam->BeginAcquisition(); cameras.push_back(pCam);
CtlBeginAcquisition ==
    /\ cpc = "begin"
    /\ \E raises \in BOOLEAN :
          IF raises
          THEN /\ cpc' = "caught"
               /\ setupFailed' = TRUE
               /\ UNCHANGED <<camState, cameras, ck>>
          ELSE /\ camState' = [camState EXCEPT ![ck] = "acquiring"]
               /\ cameras' = Append(cameras, ck)
               /\ cpc' = NextOr(ck, numCameras, "init", "prompt")
               /\ ck' = NextIdx(ck, numCameras)
               /\ UNCHANGED setupFailed
    /\ UNCHANGED <<numCameras, script, endless, quitHeld, frameQueues, isRunning, result,
                   prodVars, syncVars>>

\* The display thread started first and the camera threads left out.
CtlPrompt_DisplayFirst ==
    /\ cpc = "prompt"
    /\ cpc' = "spawnDisplay"
    /\ ck' = 0
    /\ UNCHANGED <<numCameras, script, endless, quitHeld, frameQueues, isRunning, result, cameras,
                   camState, setupFailed, prodVars, syncVars>>

\* cout << "Press Enter ..."; getchar();
CtlPrompt ==
    /\ cpc = "prompt"
    /\ cpc' = "spawn"
    /\ ck' = 0
    /\ UNCHANGED <<numCameras, script, endless, quitHeld, frameQueues, isRunning, result, cameras,
                   camState, setupFailed, prodVars, syncVars>>

\* cameraThreads.emplace_back(AcquireImages, cameras[i], i);
CtlSpawnCamera ==
    /\ cpc = "spawn"
    /\ ppc' = [ppc EXCEPT ![ck] = "loop"]
    /\ cpc' = NextOr(ck, Len(cameras), "spawn", "spawnDisplay")
    /\ ck' = NextIdx(ck, Len(cameras))
    /\ UNCHANGED <<numCameras, script, endless, quitHeld, frameQueues, isRunning, result, cameras,
                   camState, setupFailed, captured, pItem, pushedLog, syncVars>>

\* thread displayThread(DisplayFrames, numCameras); the thread creates
\* latestFrames(numCameras) and latestTimestamps(numCameras) and the window.
CtlSpawnDisplay ==
    /\ cpc = "spawnDisplay"
    /\ spc' = "loop"
    /\ latestFrames' = [i \in Cams |-> NoFrame]
    /\ latestTimestamps' = [i \in Cams |-> 0]
    /\ cpc' = "joinDisplay"
    /\ UNCHANGED <<numCameras, script, endless, quitHeld, frameQueues, isRunning, ck, result,
                   cameras, camState, setupFailed, prodVars, si,
                   allFramesReceived, poppedLog, rendered, cyclePops, cycleCount,
                   cycleRendered, discarded>>

\* The controller goes on to the camera joins without waiting for the
\* display thread.
CtlJoinDisplay_NoWait ==
    /\ cpc = "joinDisplay"
    /\ cpc' = "joinCameras"
    /\ ck' = 0
    /\ UNCHANGED <<numCameras, script, endless, quitHeld, frameQueues, isRunning, result, cameras,
                   camState, setupFailed, prodVars, syncVars>>

\* displayThread.join();
CtlJoinDisplay ==
    /\ cpc = "joinDisplay"
    /\ spc = "done"
    /\ cpc' = "joinCameras"
    /\ ck' = 0
    /\ UNCHANGED <<numCameras, script, endless, quitHeld, frameQueues, isRunning, result, cameras,
                   camState, setupFailed, prodVars, syncVars>>

\* for (auto& thread : cameraThreads) thread.join();
CtlJoinCamera ==
    /\ cpc = "joinCameras"
    /\ ppc[ck] = "done"
    /\ cpc' = NextOr(ck, Len(cameras), "joinCameras", "endAcquisition")
    /\ ck' = NextIdx(ck, Len(cameras))
    /\ UNCHANGED <<numCameras, script, endless, quitHeld, frameQueues, isRunning, result, cameras,
                   camState, setupFailed, prodVars, syncVars>>

\* cam->EndAcquisition(): returns, or raises into the catch block.
CtlEndAcquisition ==
    /\ cpc = "endAcquisition"
    /\ \E raises \in BOOLEAN :
          IF raises
          THEN /\ cpc' = "caught"
               /\ UNCHANGED camState
          ELSE /\ cpc' = "deInit"
               /\ camState' = [camState EXCEPT ![cameras[ck + 1]] = "ended"]
    /\ UNCHANGED <<numCameras, script, endless, quitHeld, frameQueues, isRunning, ck, result,
                   cameras, setupFailed, prodVars, syncVars>>

\* cam->DeInit(): returns, or raises into the catch block; after the last
\* camera the function returns result.
CtlDeInit ==
    /\ cpc = "deInit"
    /\ \E raises \in BOOLEAN :
          IF raises
          THEN /\ cpc' = "caught"
               /\ UNCHANGED <<camState, ck>>
          ELSE /\ camState' = [camState EXCEPT ![cameras[ck + 1]] = "deinited"]
               /\ cpc' = NextOr(ck, Len(cameras), "endAcquisition", "returned")
               /\ ck' = NextIdx(ck, Len(cameras))
    /\ UNCHANGED <<numCameras, script, endless, quitHeld, frameQueues, isRunning, result, cameras,
                   setupFailed, prodVars, syncVars>>

\* catch (Spinnaker::Exception& e) { result = -1; }  return result;
CtlCatch ==
    /\ cpc = "caught"
    /\ result' = -1
    /\ cpc' = "returned"
    /\ UNCHANGED <<numCameras, script, endless, quitHeld, frameQueues, isRunning, ck, cameras,
                   camState, setupFailed, prodVars, syncVars>>

RunMultipleCameras ==
    \/ CtlEmplace
    \/ CtlInit
    \/ CtlConfigureTrigger
    \/ CtlBeginAcquisition
    \/ CtlPrompt
    \/ CtlSpawnCamera
    \/ CtlSpawnDisplay
    \/ CtlJoinDisplay
    \/ CtlJoinCamera
    \/ CtlEndAcquisition
    \/ CtlDeInit
    \/ CtlCatch

\* ------------------------------------------------------------ AcquireImages
AcqWhile_Forever(running) == "capture"

\* while (isRunning): into the loop body, or out of the thread function
AcqWhile(running) == IF running THEN "capture" ELSE "done"

\* while (isRunning) { try { TriggerSoftware->Execute(); ... GetNextImage(1000)
AcqLoop(i) ==
    /\ ppc[i] \in {"loop", "incomplete", "catch"}
    /\ ppc' = [ppc EXCEPT ![i] = AcqWhile(isRunning)]
    /\ UNCHANGED <<numCameras, script, endless, quitHeld, frameQueues, isRunning, ctlVars,
                   captured, pItem, pushedLog, syncVars>>

\* Outcomes of the capture wait pCam->GetNextImage(1000).
CaptureOutcomes == {"image", "incomplete", "exception"}

AfterCapture_PushIncomplete(outcome) ==
    CASE outcome = "image"      -> "push"
      [] outcome = "incomplete" -> "push"
      [] outcome = "exception"  -> "catch"

\* Position after the capture wait: a complete image goes on to the push, an
\* incomplete one is released (continue), an exception lands in the catch.
AfterCapture(outcome) ==
    CASE outcome = "image"      -> "push"
      [] outcome = "incomplete" -> "incomplete"
      [] outcome = "exception"  -> "catch"

\* Camera i has a complete image for the capture wait.
Delivers(i) ==
    IF endless
    THEN Len(frameQueues[i].q) < MaxQueuedLive \div numCameras
    ELSE captured[i] < Len(script[i])

\* The images camera i has delivered, after one more.
Advance(i) ==
    IF endless THEN (captured[i] + 1) % Len(script[i]) ELSE captured[i] + 1

\* The history of a run with endless cameras is not kept.
Record(log, x) == IF endless THEN log ELSE Append(log, x)

\* GetNextImage returns or raises; on a complete image: GetTimeStamp, Convert,
\* resize, putText and the construction of FrameData(frameCopy, timestamp, i).
AcqCapture(i) ==
    /\ ppc[i] = "capture"
    /\ \E outcome \in CaptureOutcomes :
          /\ outcome = "image" => Delivers(i)
          /\ ppc' = [ppc EXCEPT ![i] = AfterCapture(outcome)]
          /\ IF outcome = "image"
             THEN /\ captured' = [captured EXCEPT ![i] = Advance(i)]
                  /\ pItem' = [pItem EXCEPT ![i] =
                        FrameData(<<i, captured[i] + 1>>,
                                  script[i][captured[i] + 1], i)]
             ELSE UNCHANGED <<captured, pItem>>
    /\ UNCHANGED <<numCameras, script, endless, quitHeld, frameQueues, isRunning, ctlVars,
                   pushedLog, syncVars>>

\* push entered without waiting for the mutex.
AcqPushLock_NoLock(i) ==
    /\ ppc[i] = "push"
    /\ frameQueues' = [frameQueues EXCEPT ![i].mtx = "AcquireImages"]
    /\ ppc' = [ppc EXCEPT ![i] = "pushing"]
    /\ UNCHANGED <<numCameras, script, endless, quitHeld, isRunning, ctlVars, captured, pItem,
                   pushedLog, syncVars>>

\* frameQueues[cameraIndex].push(...): unique_lock<mutex> lock(mtx);
AcqPushLock(i) ==
    /\ ppc[i] = "push"
    /\ frameQueues[i].mtx = Free
    /\ frameQueues' = [frameQueues EXCEPT ![i].mtx = "AcquireImages"]
    /\ ppc' = [ppc EXCEPT ![i] = "pushing"]
    /\ UNCHANGED <<numCameras, script, endless, quitHeld, isRunning, ctlVars, captured, pItem,
                   pushedLog, syncVars>>

\* q.push(move(item)); lock.unlock(); cond.notify_one(); then
\* pResultImage->Release() and the end of the loop body.
AcqPushBody(i) ==
    /\ ppc[i] = "pushing"
    /\ frameQueues' = [frameQueues EXCEPT
                          ![i].q = push(@, pItem[i]),
                          ![i].mtx = Free]
    /\ pushedLog' = [pushedLog EXCEPT ![i] = Record(@, pItem[i])]
    /\ pItem' = [pItem EXCEPT ![i] = DefaultFrameData]
    /\ ppc' = [ppc EXCEPT ![i] = "loop"]
    /\ UNCHANGED <<numCameras, script, endless, quitHeld, isRunning, ctlVars, captured, syncVars>>

AcquireImages(i) ==
    \/ AcqLoop(i)
    \/ AcqCapture(i)
    \/ AcqPushLock(i)
    \/ AcqPushBody(i)

\* ------------------------------------------------------------ DisplayFrames
pop_AlwaysTrue(q, item) ==
    IF empty(q)
    THEN [ok |-> TRUE, item |-> item, q |-> q]
    ELSE [ok |-> TRUE, item |-> front(q), q |-> popFront(q)]

\* bool SafeQueue::pop(FrameData& item), between taking and releasing mtx:
\* the result, the value left in item, and the queue afterwards.
pop(q, item) ==
    IF empty(q)
    THEN [ok |-> FALSE, item |-> item, q |-> q]
    ELSE [ok |-> TRUE, item |-> front(q), q |-> popFront(q)]

TimestampDiff_Reversed(a, b) == IF b >= a THEN b - a ELSE 0 - (a - b)

\* static_cast<int64_t>(a - b) on uint64_t operands: the subtraction wraps
\* modulo 2^64 and the cast reads the result as two's complement, which is the
\* signed difference whenever |a - b| < 2^63 (every timestamp here is below 2^31).
TimestampDiff(a, b) == IF a >= b THEN a - b ELSE 0 - (b - a)

\* The "Diff with Cam0" values for cameras 1 .. numCameras-1 (none if numCameras = 1).
Diffs(ts) == [i \in 1 .. numCameras - 1 |-> TimestampDiff(ts[i], ts[0])]

\* floor(sqrt(n)) and ceil(sqrt(n)) for a positive int n (sqrt is exact on
\* perfect squares of this size)
FloorSqrt(n) == CHOOSE r \in 0 .. n : r * r <= n /\ (r + 1) * (r + 1) > n
CeilSqrt(n) == IF FloorSqrt(n) * FloorSqrt(n) = n THEN FloorSqrt(n) ELSE FloorSqrt(n) + 1

\* int gridCols = ceil(sqrt(numCameras));
GridCols(n) == CeilSqrt(n)

GridRows_Floor(n) == n \div GridCols(n)

\* int gridRows = ceil((float)numCameras / gridCols);
GridRows(n) == (n \div GridCols(n)) + (IF n % GridCols(n) = 0 THEN 0 ELSE 1)

\* Mat::zeros(...): the pixels of the placeholder
Zeros == <<"zeros">>

\* One cell of the grid: a Mat with its pixels and its size.
FrameCell(f) == [mat |-> f, rows |-> FrameHeight, cols |-> FrameWidth]
BlankCell == [mat |-> Zeros, rows |-> BlankRows, cols |-> BlankCols]

\* The rows (hconcat) and the grid (vconcat): cell (i, j) takes
\* latestFrames[i * gridCols + j] if that index is below numCameras.
Grid(frames) ==
    [i \in 0 .. GridRows(numCameras) - 1 |->
        [j \in 0 .. GridCols(numCameras) - 1 |->
            LET idx == i * GridCols(numCameras) + j
            IN  IF idx < numCameras THEN FrameCell(frames[idx]) ELSE BlankCell]]

\* An abandoned attempt goes on to the key poll.
AfterCollect_PollQuit(all) == IF all THEN "render" ELSE "waitKey"

AfterCollect_AlwaysRender(all) == "render"
AfterCollect_NeverRender(all) == "sleep"

\* if (!allFramesReceived) { sleep_for(1ms); continue; }  else go on to render
AfterCollect(all) == IF all THEN "render" ELSE "sleep"

\* Keys waitKey(1) can return: a quit key, another key, or none (-1).
Keys == {"q", "Q", "x", "none"}

\* While the quit key is held down waitKey returns it.
KeysNow == IF quitHeld THEN {"q", "Q"} ELSE Keys

AfterKey_Ignored(running, key) == running

\* if (key == 'q' || key == 'Q') isRunning = false;
AfterKey(running, key) == IF key = "q" \/ key = "Q" THEN FALSE ELSE running

\* The display loop re-arms the flag for a later run when it leaves.
DispLoop_ResetsFlag ==
    /\ spc = "loop"
    /\ IF isRunning
       THEN /\ spc' = "collect"
            /\ si' = 0
            /\ allFramesReceived' = TRUE
            /\ cyclePops' = [i \in Cams |-> DefaultFrameData]
            /\ cycleCount' = [i \in Cams |-> 0]
            /\ cycleRendered' = FALSE
            /\ UNCHANGED isRunning
       ELSE /\ spc' = "done"
            /\ isRunning' = TRUE
            /\ UNCHANGED <<si, allFramesReceived, cyclePops, cycleCount, cycleRendered>>
    /\ UNCHANGED <<numCameras, script, endless, quitHeld, frameQueues, ctlVars, prodVars,
                   latestFrames, latestTimestamps, poppedLog, rendered, discarded>>

\* while (isRunning) { vector<FrameData> currentFrames; allFramesReceived = true; i = 0
DispLoop ==
    /\ spc = "loop"
    /\ IF isRunning
       THEN /\ spc' = "collect"
            /\ si' = 0
            /\ allFramesReceived' = TRUE
            /\ cyclePops' = [i \in Cams |-> DefaultFrameData]
            /\ cycleCount' = [i \in Cams |-> 0]
            /\ cycleRendered' = FALSE
       ELSE /\ spc' = "done"
            /\ UNCHANGED <<si, allFramesReceived, cyclePops, cycleCount, cycleRendered>>
    /\ UNCHANGED <<numCameras, script, endless, quitHeld, frameQueues, isRunning, ctlVars, prodVars,
                   latestFrames, latestTimestamps, poppedLog, rendered, discarded>>

\* frameQueues[i].pop(frameData): unique_lock<mutex> lock(mtx);
DispPopLock ==
    /\ spc = "collect"
    /\ frameQueues[si].mtx = Free
    /\ frameQueues' = [frameQueues EXCEPT ![si].mtx = "DisplayFrames"]
    /\ spc' = "popping"
    /\ UNCHANGED <<numCameras, script, endless, quitHeld, isRunning, ctlVars, prodVars, si,
                   latestFrames, latestTimestamps, allFramesReceived, poppedLog,
                   rendered, cyclePops, cycleCount, cycleRendered, discarded>>

\* The body of pop and the branch on its result: on true the frame and the
\* timestamp are stored and i++; on false allFramesReceived = false; break.
DispPopBody ==
    /\ spc = "popping"
    /\ LET r == pop(frameQueues[si].q, DefaultFrameData)
       IN  /\ frameQueues' = [frameQueues EXCEPT ![si].q = r.q, ![si].mtx = Free]
           /\ cycleCount' = [cycleCount EXCEPT
                                ![si] = @ + Len(frameQueues[si].q) - Len(r.q)]
           /\ IF r.ok
              THEN /\ latestFrames' = [latestFrames EXCEPT ![si] = r.item.frame]
                   /\ latestTimestamps' = [latestTimestamps EXCEPT ![si] = r.item.timestamp]
                   /\ poppedLog' = [poppedLog EXCEPT ![si] = Record(@, r.item)]
                   /\ cyclePops' = [cyclePops EXCEPT ![si] = r.item]
                   /\ si' = si + 1
                   /\ spc' = IF si + 1 < numCameras THEN "collect" ELSE "check"
                   /\ UNCHANGED <<allFramesReceived, discarded>>
              ELSE /\ allFramesReceived' = FALSE
                   /\ spc' = "check"
                   /\ discarded' = IF endless THEN discarded
                                   ELSE discarded \cup {cyclePops[j] : j \in 0 .. si - 1}
                   /\ UNCHANGED <<latestFrames, latestTimestamps, poppedLog,
                                  cyclePops, si>>
    /\ UNCHANGED <<numCameras, script, endless, quitHeld, isRunning, ctlVars, prodVars, rendered,
                   cycleRendered>>

\* if (!allFramesReceived) ...
DispCheck ==
    /\ spc = "check"
    /\ spc' = AfterCollect(allFramesReceived)
    /\ UNCHANGED <<numCameras, script, endless, quitHeld, frameQueues, isRunning, ctlVars, prodVars,
                   si, latestFrames, latestTimestamps, allFramesReceived,
                   poppedLog, rendered, cyclePops, cycleCount, cycleRendered, discarded>>

\* this_thread::sleep_for(milliseconds(1)); continue;
DispSleep ==
    /\ spc = "sleep"
    /\ spc' = "loop"
    /\ UNCHANGED <<numCameras, script, endless, quitHeld, frameQueues, isRunning, ctlVars, prodVars,
                   si, latestFrames, latestTimestamps, allFramesReceived,
                   poppedLog, rendered, cyclePops, cycleCount, cycleRendered, discarded>>

\* The timestamp differences, the grid and imshow(displayGrid).
DispRender ==
    /\ spc = "render"
    /\ rendered' = Record(rendered, [frames |-> latestFrames,
                                     diffs  |-> Diffs(latestTimestamps),
                                     grid   |-> Grid(latestFrames)])
    /\ cycleRendered' = TRUE
    /\ spc' = "waitKey"
    /\ UNCHANGED <<numCameras, script, endless, quitHeld, frameQueues, isRunning, ctlVars, prodVars,
                   si, latestFrames, latestTimestamps, allFramesReceived,
                   poppedLog, cyclePops, cycleCount, discarded>>

\* char key = (char)waitKey(1); if (key == 'q' || key == 'Q') isRunning = false;
DispWaitKey ==
    /\ spc = "waitKey"
    /\ \E key \in KeysNow : isRunning' = AfterKey(isRunning, key)
    /\ spc' = "loop"
    /\ UNCHANGED <<numCameras, script, endless, quitHeld, frameQueues, ctlVars, prodVars, si,
                   latestFrames, latestTimestamps, allFramesReceived, poppedLog,
                   rendered, cyclePops, cycleCount, cycleRendered, discarded>>

DisplayFrames ==
    \/ DispLoop
    \/ DispPopLock
    \/ DispPopBody
    \/ DispCheck
    \/ DispSleep
    \/ DispRender
    \/ DispWaitKey

\* ------------------------------------------------------- the specifications
Next ==
    \/ RunMultipleCameras
    \/ \E i \in Cams : AcquireImages(i)
    \/ DisplayFrames

Spec == Init /\ [][Next]_vars

\* The scenario of two sources with the timestamps above.
SpecScenario == InitScenario /\ [][Next]_vars

\* Every thread that can take a step eventually takes one.
Fairness ==
    /\ WF_vars(RunMultipleCameras)
    /\ WF_vars(DisplayFrames)
    /\ \A i \in 0 .. MaxCamerasFair - 1 : WF_vars(i \in Cams /\ AcquireImages(i))

SpecFair == InitFair /\ [][Next]_vars /\ Fairness

\* The user presses the quit key on the window (namedWindow, created by
\* DisplayFrames) and keeps it down.
PressQuit ==
    /\ spc # "idle"
    /\ ~quitHeld
    /\ quitHeld' = TRUE
    /\ UNCHANGED <<numCameras, script, endless, frameQueues, isRunning, ctlVars,
                   prodVars, syncVars>>

NextQuit ==
    \/ Next
    \/ PressQuit

\* Every thread that can take a step eventually takes one, and a thread
\* blocked in mutex::lock gets the mutex if it is released again and again.
FairnessLive ==
    /\ WF_vars(RunMultipleCameras)
    /\ WF_vars(DisplayFrames)
    /\ SF_vars(DispPopLock)
    /\ \A i \in 0 .. MaxCamerasLive - 1 :
          /\ WF_vars(i \in Cams /\ AcquireImages(i))
          /\ SF_vars(i \in Cams /\ AcqPushLock(i))

\* Endless cameras and fair scheduling of the threads.
SpecLive == InitLive /\ [][Next]_vars /\ FairnessLive

\* The same with a user who may hold the quit key down.
SpecQuit == InitLive /\ [][NextQuit]_vars /\ FairnessLive

\* ------------------------------------------------------------- the properties
Last(s) == s[Len(s)]
Range(s) == {s[n] : n \in 1 .. Len(s)}
NoDup(s) == \A a, b \in 1 .. Len(s) : a # b => s[a] # s[b]
IsPrefix(s, t) == Len(s) <= Len(t) /\ \A n \in 1 .. Len(s) : s[n] = t[n]
Queued == UNION {Range(frameQueues[i].q) : i \in DOMAIN frameQueues}
\* Every pop of the current collection attempt has succeeded.
AllPopped == \A i \in Cams : cyclePops[i] # DefaultFrameData
\* The frames of the items popped in the current collection attempt.
CycleFrames == [i \in Cams |-> cyclePops[i].frame]

\* C1: a cycle shows a composite if and only if all numCameras pops of that
\* cycle succeeded, the pops going through the queues in index order; the
\* composite shows, for every camera, the frame popped from its queue in that
\* same cycle; and once all pops succeeded nothing (no timestamp threshold)
\* stands between the collection and the render.
C1_State ==
    /\ cycleRendered => AllPopped
    /\ AllPopped => (cycleRendered \/ spc \in {"check", "render"})
    /\ cycleRendered => Last(rendered).frames = CycleFrames
    /\ spc \in {"collect", "popping"} =>
          \A j \in Cams : (cyclePops[j] # DefaultFrameData) <=> (j < si)
C1_Step ==
    /\ (spc = "check" /\ AllPopped /\ spc' # "check") => spc' = "render"
    /\ (spc = "render" /\ spc' # "render") =>
          /\ Len(rendered') = Len(rendered) + 1
          /\ Last(rendered').frames = CycleFrames
    /\ rendered' # rendered => (spc = "render" /\ AllPopped)
C1_RenderIffAllPopped == [](C1_State) /\ [][C1_Step]_vars

\* A composite was shown whose frames lie further apart than the threshold,
\* after an earlier attempt had been abandoned.
C1_Witness ==
    /\ cycleRendered
    /\ discarded # {}
    /\ numCameras >= 2
    /\ \E i \in 1 .. numCameras - 1 :
          Last(rendered).diffs[i] < 0 - SYNC_THRESHOLD_NS

\* C2: when a pop of a collection attempt finds its queue empty, that attempt
\* shows no composite, and the items it had already popped are in no queue
\* afterwards and in no composite, then or later.
C2_AbandonedAttemptDiscards ==
    /\ ~allFramesReceived => ~cycleRendered
    /\ ~allFramesReceived => spc \in {"check", "sleep", "loop", "done"}
    /\ \A d \in discarded :
          /\ d \notin Queued
          /\ \A r \in 1 .. Len(rendered) : \A i \in Cams :
                rendered[r].frames[i] # d.frame

\* A later cycle has shown a later frame of a camera one of whose items was
\* discarded.
C2_Witness ==
    /\ cycleRendered
    /\ \E d \in discarded :
          /\ d.cameraIndex \in Cams
          /\ Last(rendered).frames[d.cameraIndex][2] > d.frame[2]

\* C3: every pushed item is returned by at most one successful pop and is
\* part of at most one composite.
C3_NoDuplicates ==
    \A i \in Cams :
        /\ NoDup(poppedLog[i])
        /\ Range(poppedLog[i]) \subseteq Range(pushedLog[i])
        /\ NoDup([r \in 1 .. Len(rendered) |-> rendered[r].frames[i]])
        /\ \A r \in 1 .. Len(rendered) : \A j \in Cams :
              rendered[r].frames[j] = rendered[r].frames[i] => j = i

\* Two composites have been shown.
C3_Witness == Len(rendered) >= 2

\* C4: for every queue, the items returned by successful pops are, in order,
\* a prefix of the items pushed.
C4_Fifo == \A i \in Cams : IsPrefix(poppedLog[i], pushedLog[i])

\* Two items were popped from a queue into which a third was pushed before
\* the second pop.
C4_Witness ==
    \E i \in Cams :
        /\ Len(poppedLog[i]) >= 2
        /\ Len(frameQueues[i].q) >= 1

\* C5: pop never waits for an item.  Once it holds the mutex it returns:
\* on an empty queue with false, the queue still empty and nothing stored;
\* otherwise with the head item, which is removed from the queue.
C5_State == spc = "popping" => ENABLED DispPopBody
C5_Step ==
    (spc = "popping" /\ spc' # "popping") =>
        LET q  == frameQueues[si].q
            q2 == frameQueues'[si].q
        IN  /\ frameQueues'[si].mtx = Free
            /\ IF q = << >>
               THEN /\ q2 = << >>
                    /\ ~allFramesReceived'
                    /\ poppedLog' = poppedLog
                    /\ latestFrames' = latestFrames
               ELSE /\ q2 = Tail(q)
                    /\ poppedLog' = [poppedLog EXCEPT ![si] = Append(@, Head(q))]
                    /\ latestFrames'[si] = Head(q).frame
                    /\ latestTimestamps'[si] = Head(q).timestamp
                    /\ allFramesReceived' = allFramesReceived
C5_PopNeverWaits == [](C5_State) /\ [][C5_Step]_vars

\* pop has returned false on an empty queue, and earlier the head of a queue
\* holding two items.
C5_Witness ==
    /\ spc = "check"
    /\ ~allFramesReceived
    /\ frameQueues[si].q = << >>
    /\ \E i \in Cams : poppedLog[i] # << >> /\ Len(frameQueues[i].q) >= 1

\* C6: push always succeeds and nothing but pop removes items: the depth of
\* every queue is the number of pushes to it minus the number of successful
\* pops from it, and a push adds exactly its item at the tail.
C6_State ==
    /\ \A i \in DOMAIN frameQueues :
          Len(frameQueues[i].q) = Len(pushedLog[i]) - Len(poppedLog[i])
    /\ \A i \in Cams : ppc[i] = "pushing" => ENABLED AcqPushBody(i)
C6_Step ==
    \A i \in Cams :
        (ppc[i] = "pushing" /\ ppc'[i] # "pushing") =>
            frameQueues'[i].q = Append(frameQueues[i].q, pItem[i])
C6_QueueDepth == [](C6_State) /\ [][C6_Step]_vars

\* A queue that has received no pop holds two items.
C6_Witness ==
    \E i \in DOMAIN frameQueues :
        poppedLog[i] = << >> /\ Len(frameQueues[i].q) >= 2

\* C7: once isRunning is false, every AcquireImages loop and the DisplayFrames
\* loop end and RunMultipleCameras gets past the joins of the display thread
\* and of every camera thread (capture waits return; every thread is
\* scheduled fairly).
C7_ShutdownTerminates ==
    (~isRunning) ~>
        (/\ spc = "done"
         /\ \A i \in Cams : ppc[i] = "done"
         /\ cpc \in {"endAcquisition", "deInit", "caught", "returned"})

\* Two cameras ran, the stop flag was set, and RunMultipleCameras has joined
\* every thread and returned.
C7_Witness ==
    /\ ~isRunning
    /\ numCameras = 2
    /\ cpc = "returned"
    /\ spc = "done"
    /\ \A i \in Cams : ppc[i] = "done"

\* C8: in the scenario (source 0 stamps 100,200,300, source 1 stamps
\* 150,250,350), whenever three cycles have completed, the difference shown by
\* the k-th of them is source1[k] - source0[k], which is 50.
C8_ScenarioDiffs ==
    Len(rendered) = 3 =>
        \A k \in 1 .. 3 :
            /\ rendered[k].diffs[1] = ScenarioScript[1][k] - ScenarioScript[0][k]
            /\ rendered[k].diffs[1] = 50

\* Three cycles have completed in the scenario.
C8_Witness ==
    /\ Len(rendered) = 3
    /\ script = ScenarioScript
    /\ latestTimestamps[0] = 300
    /\ latestTimestamps[1] = 350

\* C9: an AcquireImages iteration whose capture wait yields no complete image
\* (timeout or driver exception, or an incomplete image) pushes nothing and
\* touches no queue, no other thread and no other camera; the thread goes back
\* to the loop test and from there into the next iteration unless isRunning is
\* false.  While some camera (camera 2, say) has pushed nothing, no composite
\* has been shown.
C9_State ==
    /\ \A i \in Cams : pushedLog[i] = << >> => (rendered = << >> /\ ~cycleRendered)
    /\ \A i \in Cams : ppc[i] \in {"incomplete", "catch"} => ENABLED AcqLoop(i)
C9_Step ==
    \A i \in Cams :
        /\ (ppc[i] = "capture" /\ ppc'[i] # "capture" /\ captured'[i] = captured[i]) =>
              /\ ppc'[i] \in {"incomplete", "catch"}
              /\ \A j \in Cams \ {i} : ppc'[j] = ppc[j]
              /\ UNCHANGED <<frameQueues, pushedLog, pItem, captured, isRunning,
                             ctlVars, syncVars>>
        /\ (ppc[i] \in {"incomplete", "catch"} /\ ppc'[i] # ppc[i]) =>
              /\ ppc'[i] = (IF isRunning THEN "capture" ELSE "done")
              /\ UNCHANGED <<frameQueues, pushedLog>>
C9_FailedCaptureIsLocal == [](C9_State) /\ [][C9_Step]_vars

\* Camera 2 reported an incomplete image and has pushed nothing, cameras 0 and
\* 1 have pushed, and the collection attempt was abandoned at queue 2.
C9_Witness ==
    /\ numCameras = 3
    /\ ppc[2] = "incomplete"
    /\ pushedLog[2] = << >>
    /\ pushedLog[0] # << >>
    /\ pushedLog[1] # << >>
    /\ spc = "sleep"
    /\ si = 2
    /\ rendered = << >>

\* C10: once the setup of a camera has failed (Init or BeginAcquisition raised,
\* or ConfigureTrigger returned -1), no AcquireImages thread and no
\* DisplayFrames thread is ever started, and RunMultipleCameras returns an
\* error.
C10_SetupFailureAborts ==
    setupFailed =>
        /\ \A i \in Cams : ppc[i] = "idle"
        /\ spc = "idle"
        /\ cpc = "returned" => result = -1

\* C11: when the setup of camera k fails after cameras 0 .. k-1 were set up,
\* every camera that was initialised and had begun acquisition has been torn
\* down (EndAcquisition, DeInit) by the time RunMultipleCameras returns, the
\* cameras acquired last being torn down first.
C11_SetupFailureTearsDown ==
    (setupFailed /\ spc = "idle") =>
        /\ cpc = "returned" => \A i \in Cams : camState[i] # "acquiring"
        /\ \A i, j \in Cams :
              (i < j /\ camState[i] \in {"ended", "deinited"}) =>
                  camState[j] # "acquiring"

\* C12: the grid of a composite of N cameras has ceil(sqrt(N)) columns and
\* ceil(N / columns) rows; cell row*columns + col shows that camera's frame
\* when the index is below N and otherwise a blank of the size of a frame; so
\* rows*columns >= N and exactly rows*columns - N cells are blank.  (Three
\* cameras: 2 x 2 with one blank.)  The dimensions are evaluated for every
\* camera count up to MaxGridCameras where the display thread is created, and
\* the cells in every composite shown.
IsCeilSqrt(c, n) == c >= 1 /\ c * c >= n /\ (c - 1) * (c - 1) < n
IsCeilDiv(r, n, c) == r * c >= n /\ (r - 1) * c < n
GridShape(g) == <<Cardinality(DOMAIN g), Cardinality(DOMAIN g[0])>>
BlankCells(g) ==
    {<<i, j>> \in (DOMAIN g) \X (DOMAIN g[0]) : g[i][j].mat = Zeros}
C12_GridLayout ==
    /\ cpc = "spawnDisplay" =>
          /\ \A n \in 1 .. MaxGridCameras :
                /\ IsCeilSqrt(GridCols(n), n)
                /\ IsCeilDiv(GridRows(n), n, GridCols(n))
                /\ GridRows(n) * GridCols(n) >= n
          /\ GridCols(3) = 2 /\ GridRows(3) = 2
    /\ \A k \in 1 .. Len(rendered) :
          LET g    == rendered[k].grid
              rows == GridShape(g)[1]
              cols == GridShape(g)[2]
          IN  /\ DOMAIN g = 0 .. rows - 1
              /\ \A i \in DOMAIN g : DOMAIN g[i] = 0 .. cols - 1
              /\ IsCeilSqrt(cols, numCameras)
              /\ IsCeilDiv(rows, numCameras, cols)
              /\ \A i \in 0 .. rows - 1 : \A j \in 0 .. cols - 1 :
                    /\ g[i][j].rows = FrameHeight
                    /\ g[i][j].cols = FrameWidth
                    /\ IF i * cols + j < numCameras
                       THEN g[i][j].mat = rendered[k].frames[i * cols + j]
                       ELSE g[i][j].mat = Zeros
              /\ Cardinality(BlankCells(g)) = rows * cols - numCameras

\* A composite of three cameras was shown: 2 x 2 with the last cell blank.
C12_Witness ==
    /\ numCameras = 3
    /\ rendered # << >>
    /\ GridShape(Last(rendered).grid) = <<2, 2>>
    /\ BlankCells(Last(rendered).grid) = {<<1, 1>>}

\* C13: if every AcquireImages thread pushes again and again and isRunning
\* stays true, then (threads scheduled fairly) DisplayFrames shows a composite
\* again and again, although abandoned attempts discard items.
C13_Progress ==
    (/\ []isRunning
     /\ \A i \in 0 .. MaxCamerasLive - 1 : []<>(i \in Cams => ppc[i] = "pushing"))
        => []<>(spc = "waitKey")

\* With endless cameras a composite has just been shown while camera 0 has
\* already pushed its next item and camera 1 is pushing its own.
C13_Witness ==
    /\ endless
    /\ isRunning
    /\ numCameras >= 2
    /\ spc = "waitKey"
    /\ cycleRendered
    /\ Len(frameQueues[0].q) >= 1
    /\ ppc[1] = "pushing"

\* C14 as stated: once the quit key is held, the stop flag is set and every
\* loop ends, whether or not the cameras keep delivering.
Stopped ==
    /\ ~isRunning
    /\ spc = "done"
    /\ \A i \in Cams : ppc[i] = "done"
ThreadStarted == spc # "idle" \/ \E i \in Cams : ppc[i] # "idle"
SetupComplete ==
    /\ DOMAIN frameQueues = Cams
    /\ Len(cameras) = numCameras
    /\ \A i \in Cams : camState[i] \notin {"closed", "inited"}
    /\ cpc \notin {"queues", "init", "trigger", "begin", "prompt"}
C15_StartupOrdering ==
    /\ ThreadStarted => SetupComplete
    /\ spc # "idle" => \A i \in Cams : ppc[i] # "idle"
    /\ \A i \in Cams : ppc[i] \in {"push", "pushing"} => i \in DOMAIN frameQueues
    /\ spc \in {"collect", "popping"} => si \in DOMAIN frameQueues
C15_Witness ==
    /\ numCameras >= 2
    /\ cpc = "joinDisplay"
    /\ spc = "popping" /\ si = 1
    /\ ppc[0] = "pushing"

\* C16: shutdown ordering.  The controller joins the display thread, then the
\* camera threads, then ends and de-initialises the cameras: while it waits
\* to join a camera thread the stop flag is already set and the display
\* thread has ended, and no camera is ended or de-initialised while a camera
\* thread or the display thread still runs.
ThreadsEnded == spc = "done" /\ \A i \in Cams : ppc[i] = "done"
InTeardown ==
    \/ cpc \in {"endAcquisition", "deInit"}
    \/ \E i \in Cams : camState[i] \in {"ended", "deinited"}
C16_State ==
    /\ cpc = "joinCameras" =>
          /\ ~isRunning
          /\ spc = "done"
          /\ \A i \in Cams : i < ck => ppc[i] = "done"
    /\ InTeardown => ~isRunning /\ ThreadsEnded
C16_Step ==
    /\ cpc' = "joinCameras" /\ cpc # "joinCameras" => cpc = "joinDisplay"
    /\ cpc' = "endAcquisition" /\ cpc \notin {"endAcquisition", "deInit"} =>
          cpc = "joinCameras"
    /\ (\E i \in Cams : camState'[i] # camState[i] /\ camState'[i] \in {"ended", "deinited"})
          => ThreadsEnded
C16_ShutdownOrdering == []C16_State /\ [][C16_Step]_vars
C16_Witness ==
    /\ numCameras >= 2
    /\ cpc = "joinCameras" /\ ck = 1
    /\ ppc[1] = "pushing"
    /\ Len(rendered) >= 1

\* C17: the stop flag is monotone.  isRunning is true until a loop has
\* started, its only change is from true to false (made by the display
\* thread after waitKey), and once false it stays false.
C17_State == ~ThreadStarted => isRunning
C17_Step ==
    /\ ~isRunning => ~isRunning'
    /\ isRunning' # isRunning => isRunning /\ spc = "waitKey" /\ spc' = "loop"
C17_StopFlagMonotone == []C17_State /\ [][C17_Step]_vars
C17_Witness ==
    /\ ~isRunning
    /\ numCameras >= 2
    /\ spc = "done"
    /\ ppc[0] = "done" /\ ppc[1] = "pushing"
    /\ cpc = "joinCameras"

\* C18: lock discipline.  The mutex of queue i is held by camera thread i
\* exactly while it is inside push and by the display thread exactly while it
\* is inside pop on queue i, never by both; the display thread holds at most
\* one mutex; no mutex is held in the capture wait, the retry sleep, imshow
\* or waitKey; and whoever holds a mutex can go on and release it.
InPush(i) == ppc[i] = "pushing"
InPop(i) == spc = "popping" /\ si = i
HeldByDisplay == {i \in DOMAIN frameQueues : frameQueues[i].mtx = "DisplayFrames"}
C18_LockDiscipline ==
    /\ \A i \in DOMAIN frameQueues :
          /\ frameQueues[i].mtx = "AcquireImages" <=> InPush(i)
          /\ frameQueues[i].mtx = "DisplayFrames" <=> InPop(i)
          /\ ~(InPush(i) /\ InPop(i))
          /\ ppc[i] \in {"capture", "loop", "incomplete", "catch", "done"}
                => frameQueues[i].mtx # "AcquireImages"
          /\ frameQueues[i].mtx = "AcquireImages" => ENABLED AcqPushBody(i)
          /\ frameQueues[i].mtx = "DisplayFrames" => ENABLED DispPopBody
    /\ Cardinality(HeldByDisplay) <= 1
    /\ spc \in {"sleep", "render", "waitKey", "check", "loop", "done"} => HeldByDisplay = {}
C18_Witness ==
    /\ numCameras >= 2
    /\ InPush(0)
    /\ InPop(1)
    /\ ppc[1] = "push"

\* C19: after the stop flag.  Once isRunning is false the display thread pops
\* and shows nothing more and leaves its loop; a camera thread starts no new
\* loop pass, so it finishes at most the capture wait and the push of the
\* pass it is in and then ends; what is in a queue stays there.
C19_State == ~isRunning => spc \in {"loop", "done"}
C19_Step ==
    ~isRunning =>
        /\ poppedLog' = poppedLog
        /\ rendered' = rendered
        /\ spc' \in {spc, "done"}
        /\ \A i \in Cams :
              /\ IsPrefix(frameQueues[i].q, frameQueues'[i].q)
              /\ ppc'[i] = "capture" => ppc[i] = "capture"
              /\ ppc'[i] \in {"push", "incomplete", "catch"} /\ ppc'[i] # ppc[i]
                    => ppc[i] = "capture"
              /\ captured'[i] # captured[i] => ppc[i] = "capture" /\ ppc'[i] = "push"
              /\ pushedLog'[i] # pushedLog[i] =>
                    /\ ppc[i] = "pushing" /\ ppc'[i] = "loop"
                    /\ Len(pushedLog'[i]) = Len(pushedLog[i]) + 1
              /\ ppc[i] \in {"loop", "incomplete", "catch", "done"}
                    => ppc'[i] \in {ppc[i], "done"}
C19_AfterStopFlag == []C19_State /\ [][C19_Step]_vars
C19_Witness ==
    /\ ~isRunning
    /\ numCameras >= 2
    /\ spc = "done"
    /\ ppc[0] = "done" /\ Len(frameQueues[0].q) >= 1
    /\ ppc[1] = "pushing"

\* C20: the effect of an abandoned collection attempt.  An attempt that found
\* queue k empty has taken exactly one item out of each of the queues
\* 0 .. k-1 and none out of the queues k .. N-1; it goes to the retry sleep
\* and back to the loop test without waitKey and without a write of
\* isRunning, which changes only after waitKey in a cycle that has shown its
\* composite.
Abandoned == spc \in {"check", "sleep"} /\ ~allFramesReceived
C20_State ==
    /\ Abandoned =>
          /\ si \in Cams
          /\ \A j \in Cams : cycleCount[j] = IF j < si THEN 1 ELSE 0
          /\ ~cycleRendered
    /\ spc = "waitKey" => allFramesReceived /\ cycleRendered
C20_Step ==
    /\ Abandoned /\ spc = "check" /\ spc' # spc => spc' = "sleep"
    /\ Abandoned /\ spc = "sleep" /\ spc' # spc => spc' = "loop"
    /\ Abandoned => /\ isRunning' = isRunning
                    /\ cycleCount' = cycleCount
                    /\ poppedLog' = poppedLog
                    /\ \A j \in Cams : Len(frameQueues'[j].q) >= Len(frameQueues[j].q)
    /\ isRunning' # isRunning => spc = "waitKey" /\ cycleRendered /\ allFramesReceived
    /\ \A j \in DOMAIN frameQueues :
          Len(frameQueues'[j].q) < Len(frameQueues[j].q) =>
              /\ spc = "popping" /\ si = j
              /\ Len(frameQueues'[j].q) = Len(frameQueues[j].q) - 1
              /\ cycleCount[j] = 0
C20_AbandonedAttemptEffect == []C20_State /\ [][C20_Step]_vars
C20_Witness ==
    /\ numCameras >= 3
    /\ Abandoned /\ spc = "sleep"
    /\ si = 2
    /\ Len(frameQueues[2].q) >= 1
    /\ Len(rendered) >= 1

====
